---- MODULE Spec2Model ----
(***************************************************************************)
(* Transactional operations of azure_messaging_servicebus:                 *)
(*   TransactionScope          (src/transaction.rs)                        *)
(*   AmqpTransaction           (src/amqp/amqp_transaction.rs)              *)
(*   DeadLetterOptions         (src/receiver/mod.rs)                       *)
(* One caller drives one TransactionScope: it awaits each call before it   *)
(* makes the next.  The transaction context (fe2o3_amqp's Transaction) and *)
(* the broker behind it are the environment: they answer each submission.  *)
(***************************************************************************)
EXTENDS Naturals, Sequences, FiniteSets

\* ------------------------------------------------------------------ state
VARIABLES
    scope,      \* the TransactionScope value: "Open", or what consumed it
    pc,         \* where the caller's current call is suspended
    cur,        \* the current (or last) call and its arguments
    ncalls,     \* calls made so far; the current call's id
    wire,       \* every operation issued to the transaction context, in order
    instr,      \* the last operation issued, with its full content
    answer,     \* what the transport answered the current call, if it has
    result,     \* what the current call returned
    broker,     \* the broker's side of the transaction
    seen        \* <<call, message, outcome kind, Ok or Err>> of the one-message sends

vars == <<scope, pc, cur, ncalls, wire, instr, answer, result, broker, seen>>

\* ------------------------------------------------------------------ bounds
\* send and disposition calls made on the scope before it is discharged
MaxOps == 2
\* messages in one send_messages call or in one ServiceBusMessageBatch
MaxLen == 2

\* ------------------------------------------------------------------ values
\* Option<T>: None is the empty tuple, Some(x) the one-element tuple
None == <<>>
Some(x) == <<x>>
IsSome(o) == Len(o) = 1
Unwrap(o) == o[1]

Msgs == {"m1", "m2"}
MessageSeqs == UNION {[1..n -> Msgs] : n \in 0..MaxLen}

\* OrderedMap<String, Value>: entries in insertion order, keys distinct
PropMaps ==
    {<<>>,
     <<<<"k1", "v1">>>>,
     <<<<"k2", "v2">>, <<"k1", "v1">>>>}
OptPropMaps == {None} \cup {Some(m) : m \in PropMaps}
OptReasons == {None, Some("reason")}
OptDescriptions == {None, Some("description")}
SessionIds == {None, Some("session")}

\* ServiceBusReceivedMessage, as far as the lock_token field goes
ReceivedMessages ==
    {[lock_token |-> "LockToken", id |-> 1],
     [lock_token |-> "Delivery", id |-> 1],
     [lock_token |-> "Delivery", id |-> 2]}

\* fe2o3_amqp_types::messaging::Outcome, with the payload each variant wraps
Payloads == {"p1", "p2"}
Outcomes ==
    {[kind |-> "Accepted", payload |-> "unit"],
     [kind |-> "Released", payload |-> "unit"],
     [kind |-> "Declared", payload |-> "txn-id"]}
    \cup {[kind |-> k, payload |-> p] : k \in {"Rejected", "Modified"}, p \in Payloads}
NoOutcome == [kind |-> "none", payload |-> "none"]

\* what a call returned: Ok(()), Err(variant(payload)), or nothing yet
Ok == [tag |-> "Ok", variant |-> "unit", payload |-> "unit"]
Err(variant, payload) == [tag |-> "Err", variant |-> variant, payload |-> payload]
NoResult == [tag |-> "None", variant |-> "none", payload |-> "none"]
NoInstr == [kind |-> "none"]

SendOps == {"send_message", "send_messages", "send_message_batch"}
DispositionOps ==
    {"complete_message", "abandon_message", "dead_letter_message", "defer_message"}
DischargeOps == {"commit", "rollback"}

\* ------------------------------------------------- what a piece of code does next
\* return a value to the caller, issue an operation to the transaction context
\* and suspend on it, or abort (unreachable!)
Return(r) == [next |-> "return", result |-> r]
Submit(i) == [next |-> "submit", instr |-> i]
Panic == [next |-> "panic"]

\* a transport answer: an Outcome, a plain success, or a transport error
Answer(o) == [tag |-> "outcome", outcome |-> o, error |-> "none"]
Done == [tag |-> "done", outcome |-> NoOutcome, error |-> "none"]
Failed(e) == [tag |-> "error", outcome |-> NoOutcome, error |-> e]
NoAnswer == [tag |-> "none", outcome |-> NoOutcome, error |-> "none"]

SendErrors == {"link-detached"}
LinkStateErrors == {"illegal-link-state"}
ControllerErrors == {"controller-send"}

\* ------------------------------------------------- envelope builder
\* message.into(): the ServiceBusMessage wrapping the caller's value
IntoServiceBusMessage(m) == [amqp_message |-> m]

\* nothing for an empty input, else an envelope tagged single or batch
build_amqp_batch_from_messages(messages, force_batch) ==
    IF Len(messages) = 0 THEN None
    ELSE IF Len(messages) = 1 /\ ~force_batch
         THEN Some([sendable |-> "Single", messages |-> messages])
         ELSE Some([sendable |-> "Batch", messages |-> messages])

batch_service_bus_messages_as_amqp_message(source, force_batch) ==
    build_amqp_batch_from_messages(
        [i \in 1..Len(source) |-> source[i].amqp_message], force_batch)

\* ------------------------------------------------- AmqpTransaction, sends
\* as send_batch_envelope_post, but a batch is posted like a single message
send_batch_envelope_post_AlwaysPost(batch) ==
    Submit([kind |-> "post", sendable |-> batch.messages])

\* send_batch_envelope, first half: which post the envelope is given to
send_batch_envelope_post(batch) ==
    IF batch.sendable = "Single"
    THEN Submit([kind |-> "post", sendable |-> batch.messages])
    ELSE Submit([kind |-> "post_batchable", sendable |-> batch.messages])

\* as send_batch_envelope_try, but the failed post is issued again
send_batch_envelope_try_Retry(e) == Submit(instr)

\* the ? on a post, post_batchable or delivery future that failed
send_batch_envelope_try(e) == Return(Err("SendError", e))

\* as send_batch_envelope_match, but Declared is returned as one more failure
send_batch_envelope_match_DeclaredErr(o) ==
    CASE o.kind = "Accepted" -> Return(Ok)
      [] o.kind = "Rejected" -> Return(Err("NotAccepted::Rejected", o.payload))
      [] o.kind = "Released" -> Return(Err("NotAccepted::Released", o.payload))
      [] o.kind = "Modified" -> Return(Err("NotAccepted::Modified", o.payload))
      [] o.kind = "Declared" -> Return(Err("NotAccepted::Declared", o.payload))

\* as send_batch_envelope_match, but Released is taken for success
send_batch_envelope_match_ReleasedOk(o) ==
    CASE o.kind = "Accepted" -> Return(Ok)
      [] o.kind = "Rejected" -> Return(Err("NotAccepted::Rejected", o.payload))
      [] o.kind = "Released" -> Return(Ok)
      [] o.kind = "Modified" -> Return(Err("NotAccepted::Modified", o.payload))
      [] o.kind = "Declared" -> Panic

\* send_batch_envelope, second half: the match on the outcome
send_batch_envelope_match(o) ==
    CASE o.kind = "Accepted" -> Return(Ok)
      [] o.kind = "Rejected" -> Return(Err("NotAccepted::Rejected", o.payload))
      [] o.kind = "Released" -> Return(Err("NotAccepted::Released", o.payload))
      [] o.kind = "Modified" -> Return(Err("NotAccepted::Modified", o.payload))
      [] o.kind = "Declared" -> Panic

send_batch_envelope(reply) ==
    IF reply.tag = "error"
    THEN send_batch_envelope_try(reply.error)
    ELSE send_batch_envelope_match(reply.outcome)

\* as send, but an empty message set is refused
send_EmptyIsError(messages) ==
    LET envelope == batch_service_bus_messages_as_amqp_message(messages, FALSE)
    IN  IF IsSome(envelope)
        THEN send_batch_envelope_post(Unwrap(envelope))
        ELSE Return(Err("EmptyMessageSet", "unit"))

\* TransactionProcessing::send, up to its await
send(messages) ==
    LET envelope == batch_service_bus_messages_as_amqp_message(messages, FALSE)
    IN  IF IsSome(envelope)
        THEN send_batch_envelope_post(Unwrap(envelope))
        ELSE Return(Ok)

\* TransactionProcessing::send, after send_batch_envelope: `?; Ok(())`
send_resume(step) == step

\* TransactionProcessing::send_batch, up to its await
send_batch(message_batch) ==
    LET envelope == build_amqp_batch_from_messages(message_batch.messages, FALSE)
    IN  IF IsSome(envelope)
        THEN send_batch_envelope_post(Unwrap(envelope))
        ELSE Return(Ok)

\* as send_batch_resume, but the result of send_batch_envelope is dropped
send_batch_resume_Swallow(step) ==
    IF step.next = "return" THEN Return(Ok) ELSE step

\* TransactionProcessing::send_batch, after send_batch_envelope: `?; Ok(())`
send_batch_resume(step) == step

\* ------------------------------------------------- AmqpTransaction, dispositions
Symbol(k) == [symbol |-> k]

\* properties_to_modify.map(|map| map.into_iter().map(|(k, v)| (k.into(), v)).collect())
IntoFields(properties_to_modify) ==
    IF IsSome(properties_to_modify)
    THEN LET map == Unwrap(properties_to_modify)
         IN  Some([i \in 1..Len(map) |-> <<Symbol(map[i][1]), map[i][2]>>])
    ELSE None

\* amqp_receiver::dead_letter_error: the error a rejection carries
dead_letter_error(dead_letter_reason, dead_letter_error_description, properties_to_modify) ==
    [reason |-> dead_letter_reason,
     description |-> dead_letter_error_description,
     annotations |-> IntoFields(properties_to_modify)]

Txn_complete_message(delivery_info) ==
    Submit([kind |-> "accept", delivery |-> delivery_info])

\* as Txn_abandon_message, but absent properties become an empty map
Txn_abandon_message_EmptyMap(delivery_info, properties_to_modify) ==
    Submit([kind |-> "modify", delivery |-> delivery_info,
            modified |-> [delivery_failed |-> None,
                          undeliverable_here |-> None,
                          message_annotations |->
                              IF IsSome(properties_to_modify)
                              THEN IntoFields(properties_to_modify)
                              ELSE Some(<<>>)]])

Txn_abandon_message(delivery_info, properties_to_modify) ==
    Submit([kind |-> "modify", delivery |-> delivery_info,
            modified |-> [delivery_failed |-> None,
                          undeliverable_here |-> None,
                          message_annotations |-> IntoFields(properties_to_modify)]])

Txn_dead_letter_message(delivery_info, dead_letter_reason, dead_letter_error_description, properties_to_modify) ==
    Submit([kind |-> "reject", delivery |-> delivery_info,
            error |-> dead_letter_error(dead_letter_reason,
                                        dead_letter_error_description,
                                        properties_to_modify)])

\* as Txn_defer_message, but undeliverable_here is left unset
Txn_defer_message_Unset(delivery_info, properties_to_modify) ==
    Submit([kind |-> "modify", delivery |-> delivery_info,
            modified |-> [delivery_failed |-> None,
                          undeliverable_here |-> None,
                          message_annotations |-> IntoFields(properties_to_modify)]])

Txn_defer_message(delivery_info, properties_to_modify) ==
    Submit([kind |-> "modify", delivery |-> delivery_info,
            modified |-> [delivery_failed |-> None,
                          undeliverable_here |-> Some(TRUE),
                          message_annotations |-> IntoFields(properties_to_modify)]])

NotImplemented == Err("TransactionalRequestResponseNotImplemented", "unit")

\* TransactionProcessing::{complete, abandon, dead_letter, defer}, up to the await
complete(message, session_id) ==
    IF message.lock_token = "LockToken"
    THEN Return(NotImplemented)
    ELSE Txn_complete_message(message.id)

abandon(message, properties_to_modify, session_id) ==
    IF message.lock_token = "LockToken"
    THEN Return(NotImplemented)
    ELSE Txn_abandon_message(message.id, properties_to_modify)

dead_letter(message, dead_letter_reason, dead_letter_error_description, properties_to_modify, session_id) ==
    IF message.lock_token = "LockToken"
    THEN Return(NotImplemented)
    ELSE Txn_dead_letter_message(message.id, dead_letter_reason,
                                 dead_letter_error_description, properties_to_modify)

\* as defer, but a session-bound receiver is refused
defer_SessionChecked(message, properties_to_modify, session_id) ==
    IF message.lock_token = "LockToken"
    THEN Return(NotImplemented)
    ELSE IF IsSome(session_id)
         THEN Return(Err("SessionNotSupported", "unit"))
         ELSE Txn_defer_message(message.id, properties_to_modify)

\* as defer, but the lock token variant is not told apart
defer_NoLocator(message, properties_to_modify, session_id) ==
    Txn_defer_message(message.id, properties_to_modify)

defer(message, properties_to_modify, session_id) ==
    IF message.lock_token = "LockToken"
    THEN Return(NotImplemented)
    ELSE Txn_defer_message(message.id, properties_to_modify)

\* as disposition_resume, but the link's error is dropped
disposition_resume_Swallow(reply) == Return(Ok)

\* as disposition_resume, but a failure rolls the transaction back by itself
disposition_resume_AutoRollback(reply) ==
    IF reply.tag = "error"
    THEN Submit([kind |-> "rollback"])
    ELSE Return(Ok)

\* the `.await?; Ok(())` after accept, modify or reject
disposition_resume(reply) ==
    IF reply.tag = "error"
    THEN Return(Err("IllegalLinkState", reply.error))
    ELSE Return(Ok)

\* ------------------------------------------------- TransactionScope, discharge
\* as commit, but the context is discharged with failure
commit_Fail == [scope |-> "Committed", step |-> Submit([kind |-> "rollback"])]

\* as commit, but through &self: the scope outlives the call
commit_Borrowed == [scope |-> "Open", step |-> Submit([kind |-> "commit"])]

\* commit(self): the scope is moved into the call, which discharges the context
commit == [scope |-> "Committed", step |-> Submit([kind |-> "commit"])]

\* as rollback, but through &self: the scope outlives the call
rollback_Borrowed == [scope |-> "Open", step |-> Submit([kind |-> "rollback"])]

rollback == [scope |-> "RolledBack", step |-> Submit([kind |-> "rollback"])]

\* commit and rollback return the controller's answer as it is
discharge_resume(reply) ==
    IF reply.tag = "error"
    THEN Return(Err("ControllerSendError", reply.error))
    ELSE Return(Ok)

\* ------------------------------------------------- TransactionScope, operations
send_message(message) == send(<<IntoServiceBusMessage(message)>>)

\* as send_messages, but only the first message is handed on
send_messages_FirstOnly(messages) ==
    send([i \in 1..(IF Len(messages) > 0 THEN 1 ELSE 0) |->
            IntoServiceBusMessage(messages[i])])

send_messages(messages) ==
    send([i \in 1..Len(messages) |-> IntoServiceBusMessage(messages[i])])

send_message_batch(batch) == send_batch(batch.inner)

complete_message(message, session_id) == complete(message, session_id)

abandon_message(message, properties_to_modify, session_id) ==
    abandon(message, properties_to_modify, session_id)

\* as dead_letter_message, but reason and description change places
dead_letter_message_Swapped(message, options, session_id) ==
    dead_letter(message,
                options.dead_letter_error_description,
                options.dead_letter_reason,
                options.properties_to_modify,
                session_id)

dead_letter_message(message, options, session_id) ==
    dead_letter(message,
                options.dead_letter_reason,
                options.dead_letter_error_description,
                options.properties_to_modify,
                session_id)

defer_message(message, properties_to_modify, session_id) ==
    defer(message, properties_to_modify, session_id)

\* DeadLetterOptions: three fields, each optional
DeadLetterOptions ==
    [dead_letter_reason : OptReasons,
     dead_letter_error_description : OptDescriptions,
     properties_to_modify : OptPropMaps]

\* ServiceBusMessageBatch: the AmqpMessageBatch it wraps holds built messages
MessageBatches == {[inner |-> [messages |-> ms]] : ms \in MessageSeqs}

\* ------------------------------------------------------------------ initial state
NoCall == [op |-> "none", id |-> 0]

Init ==
    /\ scope = "Open"
    /\ pc = "idle"
    /\ cur = NoCall
    /\ ncalls = 0
    /\ wire = <<>>
    /\ instr = NoInstr
    /\ answer = NoAnswer
    /\ result = NoResult
    /\ broker = [txn |-> "active", accepted |-> {}, applied |-> {}]
    /\ seen = {}

\* ------------------------------------------------------------------ steps
\* as AwaitOf, but the call that issued a post_batchable waits on nothing
\* that is ever answered
AwaitOf_BatchNeverPolled(kind) ==
    CASE kind = "post" -> "await_post"
      [] kind = "post_batchable" -> "await_never"
      [] kind \in {"accept", "modify", "reject"} -> "await_disposition"
      [] kind \in {"commit", "rollback"} -> "await_discharge"

AwaitOf(kind) ==
    CASE kind = "post" -> "await_post"
      [] kind = "post_batchable" -> "await_post_batchable"
      [] kind \in {"accept", "modify", "reject"} -> "await_disposition"
      [] kind \in {"commit", "rollback"} -> "await_discharge"

\* carry out what the code does next, for the call with this id; a call that
\* issues nothing leaves `last` as the record of what it issued
Exec(step, id, last) ==
    CASE step.next = "return" ->
            /\ result' = step.result
            /\ pc' = "idle"
            /\ instr' = last
            /\ wire' = wire
      [] step.next = "submit" ->
            /\ wire' = Append(wire, [kind |-> step.instr.kind, call |-> id])
            /\ instr' = step.instr
            /\ pc' = AwaitOf(step.instr.kind)
            /\ result' = NoResult
      [] step.next = "panic" ->
            /\ result' = NoResult
            /\ pc' = "panicked"
            /\ instr' = last
            /\ wire' = wire

\* the caller may call: it is between calls and holds the scope
CanCall == pc = "idle" /\ scope = "Open"

\* a call through &self, up to where it returns or suspends
Begin(call, step) ==
    /\ ncalls < MaxOps
    /\ ncalls' = ncalls + 1
    /\ cur' = [call EXCEPT !.id = ncalls + 1]
    /\ answer' = NoAnswer
    /\ Exec(step, ncalls + 1, NoInstr)
    /\ UNCHANGED <<scope, broker, seen>>

CallSendMessage ==
    /\ CanCall
    /\ \E m \in Msgs :
           Begin([op |-> "send_message", id |-> 0, messages |-> <<m>>],
                 send_message(m))

CallSendMessages ==
    /\ CanCall
    /\ \E ms \in MessageSeqs :
           Begin([op |-> "send_messages", id |-> 0, messages |-> ms],
                 send_messages(ms))

CallSendMessageBatch ==
    /\ CanCall
    /\ \E b \in MessageBatches :
           Begin([op |-> "send_message_batch", id |-> 0, messages |-> b.inner.messages],
                 send_message_batch(b))

CallCompleteMessage ==
    /\ CanCall
    /\ \E msg \in ReceivedMessages, sid \in SessionIds :
           Begin([op |-> "complete_message", id |-> 0, message |-> msg, session_id |-> sid],
                 complete_message(msg, sid))

CallAbandonMessage ==
    /\ CanCall
    /\ \E msg \in ReceivedMessages, sid \in SessionIds, props \in OptPropMaps :
           Begin([op |-> "abandon_message", id |-> 0, message |-> msg, session_id |-> sid,
                  properties_to_modify |-> props],
                 abandon_message(msg, props, sid))

CallDeadLetterMessage ==
    /\ CanCall
    /\ \E msg \in ReceivedMessages, sid \in SessionIds, options \in DeadLetterOptions :
           Begin([op |-> "dead_letter_message", id |-> 0, message |-> msg, session_id |-> sid,
                  options |-> options],
                 dead_letter_message(msg, options, sid))

CallDeferMessage ==
    /\ CanCall
    /\ \E msg \in ReceivedMessages, sid \in SessionIds, props \in OptPropMaps :
           Begin([op |-> "defer_message", id |-> 0, message |-> msg, session_id |-> sid,
                  properties_to_modify |-> props],
                 defer_message(msg, props, sid))

\* a call through self: the scope is moved into it whatever it returns
Discharge(op, d) ==
    /\ scope' = d.scope
    /\ ncalls' = ncalls + 1
    /\ cur' = [op |-> op, id |-> ncalls + 1]
    /\ answer' = NoAnswer
    /\ Exec(d.step, ncalls + 1, NoInstr)
    /\ UNCHANGED <<broker, seen>>

CallCommit ==
    /\ CanCall
    /\ Discharge("commit", commit)

CallRollback ==
    /\ CanCall
    /\ Discharge("rollback", rollback)

\* ------------------------------------------------------------------ transport and broker
SendAnswers == {Answer(o) : o \in Outcomes} \cup {Failed(e) : e \in SendErrors}

\* the broker holds an operation under the transaction once it has taken it
Took(id) == [broker EXCEPT !.accepted = @ \cup {id}]

\* the send call suspended on send_batch_envelope resumes with its answer
SendResume(a) ==
    LET step == IF cur.op = "send_message_batch"
                THEN send_batch_resume(send_batch_envelope(a))
                ELSE send_resume(send_batch_envelope(a))
    IN  /\ answer' = a
        /\ Exec(step, cur.id, instr)
        /\ seen' = IF /\ a.tag = "outcome"
                      /\ step.next = "return"
                      /\ cur.op \in {"send_message", "send_message_batch"}
                      /\ Len(cur.messages) = 1
                   THEN seen \cup {<<cur.op, cur.messages[1], a.outcome.kind, step.result.tag>>}
                   ELSE seen
        /\ UNCHANGED <<scope, cur, ncalls>>

\* post(...).await: the transfer's outcome, or a transport error
PostAnswers ==
    /\ pc = "await_post"
    /\ \E a \in SendAnswers :
        /\ SendResume(a)
        /\ \/ a.tag = "outcome" /\ a.outcome.kind = "Accepted" /\ broker' = Took(cur.id)
           \/ a.tag = "outcome" /\ a.outcome.kind # "Accepted" /\ broker' = broker
           \/ a.tag = "error" /\ broker' \in {broker, Took(cur.id)}

\* post_batchable(...).await: the transfer is out and a delivery future is back,
\* or a transport error
PostBatchableAnswers ==
    /\ pc = "await_post_batchable"
    /\ \/ /\ pc' = "await_fut"
          /\ UNCHANGED <<scope, cur, ncalls, wire, instr, answer, result, broker, seen>>
       \/ \E e \in SendErrors :
            /\ SendResume(Failed(e))
            /\ broker' = broker

\* fut.await: the batch transfer's outcome, or a transport error
DeliveryFutResolves ==
    /\ pc = "await_fut"
    /\ \E a \in SendAnswers :
        /\ SendResume(a)
        /\ \/ a.tag = "outcome" /\ a.outcome.kind = "Accepted" /\ broker' = Took(cur.id)
           \/ a.tag = "outcome" /\ a.outcome.kind # "Accepted" /\ broker' = broker
           \/ a.tag = "error" /\ broker' \in {broker, Took(cur.id)}

\* accept / modify / reject (...).await: sent, or the link is in no state to send
DispositionAnswers ==
    /\ pc = "await_disposition"
    /\ \E a \in {Done} \cup {Failed(e) : e \in LinkStateErrors} :
        /\ Exec(disposition_resume(a), cur.id, instr)
        /\ answer' = a
        /\ broker' = IF a.tag = "done" THEN Took(cur.id) ELSE broker
        /\ UNCHANGED <<scope, cur, ncalls, seen>>

\* the broker ends the transaction: every operation it holds, or none of them
Settled(kind) ==
    IF kind = "commit"
    THEN [broker EXCEPT !.txn = "committed", !.applied = broker.accepted]
    ELSE [broker EXCEPT !.txn = "rolledback", !.applied = {}]

\* commit / rollback (...).await: the controller's answer; when the answer is
\* lost the broker has either served the discharge or dropped the transaction
DischargeAnswers ==
    /\ pc = "await_discharge"
    /\ \E a \in {Done} \cup {Failed(e) : e \in ControllerErrors} :
        /\ Exec(discharge_resume(a), cur.id, instr)
        /\ broker' \in IF a.tag = "done"
                       THEN {Settled(instr.kind)}
                       ELSE {Settled(instr.kind), Settled("rollback")}
        /\ answer' = a
        /\ UNCHANGED <<scope, cur, ncalls, seen>>

Next ==
    \/ CallSendMessage
    \/ CallSendMessages
    \/ CallSendMessageBatch
    \/ CallCompleteMessage
    \/ CallAbandonMessage
    \/ CallDeadLetterMessage
    \/ CallDeferMessage
    \/ CallCommit
    \/ CallRollback
    \/ PostAnswers
    \/ PostBatchableAnswers
    \/ DeliveryFutResolves
    \/ DispositionAnswers
    \/ DischargeAnswers

Spec == Init /\ [][Next]_vars

\* the broker and the transport answer every submission in the end; the caller
\* is free to make no further call
FairSpec ==
    /\ Spec
    /\ WF_vars(PostAnswers)
    /\ WF_vars(PostBatchableAnswers)
    /\ WF_vars(DeliveryFutResolves)
    /\ WF_vars(DispositionAnswers)
    /\ WF_vars(DischargeAnswers)

\* ------------------------------------------------------------------ properties
Issued(id) == {i \in DOMAIN wire : wire[i].call = id}
Discharges(w) == {i \in DOMAIN w : w[i].kind \in DischargeOps}
Returned == pc = "idle" /\ result # NoResult

\* C1: atomicity. When commit has returned success the broker has applied every
\* operation it took under the scope; when rollback has returned success it has
\* applied none; and in no state has it applied some but not all of them.
C1_Atomicity ==
    /\ (cur.op = "commit" /\ Returned /\ result = Ok) => broker.applied = broker.accepted
    /\ (cur.op = "rollback" /\ Returned /\ result = Ok) => broker.applied = {}
    /\ broker.applied \in {{}, broker.accepted}

C1_Witness ==
    /\ cur.op = "commit" /\ Returned /\ result = Ok
    /\ Cardinality(broker.accepted) = 2
    /\ broker.applied = broker.accepted

\* C2: a scope is committed or rolled back, never both and never twice. At most
\* one commit or rollback is ever issued to the transaction context, and a scope
\* that is Committed or RolledBack stays what it is.
C2_DischargedAtMostOnce ==
    [][/\ scope # "Open" => scope' = scope
       /\ Cardinality(Discharges(wire')) <= 1]_vars

C2_Witness ==
    /\ scope = "RolledBack" /\ Returned
    /\ Cardinality(Discharges(wire)) = 1
    /\ Len(wire) > 1

\* C3: once commit or rollback has consumed the scope nothing is sent or settled
\* on it. Every send or disposition the transaction context sees comes before
\* the scope's commit or rollback, and the only call on a consumed scope is the
\* one that consumed it.
C3_NothingAfterDischarge ==
    /\ \A i, j \in DOMAIN wire : wire[i].kind \in DischargeOps => j <= i
    /\ scope # "Open" => cur.op \in DischargeOps /\ pc \in {"await_discharge", "idle"}

C3_Witness ==
    /\ scope # "Open" /\ Returned
    /\ Len(wire) = 3
    /\ wire[1].kind = "post" /\ wire[2].kind = "modify"
    /\ wire[3].kind \in DischargeOps

\* C4: a disposition of a message held by lock token returns
\* TransactionalRequestResponseNotImplemented, whichever of the four it is, and
\* issues no accept, modify or reject (nor anything else).
C4_LockTokenUnsupported ==
    (cur.op \in DispositionOps /\ cur.message.lock_token = "LockToken") =>
        /\ pc = "idle"
        /\ result = Err("TransactionalRequestResponseNotImplemented", "unit")
        /\ Issued(cur.id) = {}
        /\ instr = NoInstr
        /\ cur.id \notin broker.accepted

C4_Witness ==
    /\ cur.op = "defer_message" /\ cur.message.lock_token = "LockToken"
    /\ cur.id = 2 /\ Len(wire) = 1
    /\ result.tag = "Err"

\* C5: a disposition of a message held by delivery issues one instruction, once,
\* for that message's delivery: complete an accept and nothing more; abandon a
\* modify with delivery_failed and undeliverable_here unset; dead-letter a reject
\* with the error made of the reason, description and properties; defer a modify
\* with undeliverable_here true and delivery_failed unset.
C5_DispositionShape ==
    (cur.op \in DispositionOps /\ cur.message.lock_token = "Delivery") =>
        /\ Cardinality(Issued(cur.id)) = 1
        /\ instr.delivery = cur.message.id
        /\ cur.op = "complete_message" =>
              instr = [kind |-> "accept", delivery |-> cur.message.id]
        /\ cur.op = "abandon_message" =>
              /\ instr.kind = "modify" /\ DOMAIN instr = {"kind", "delivery", "modified"}
              /\ instr.modified.delivery_failed = None
              /\ instr.modified.undeliverable_here = None
        /\ cur.op = "dead_letter_message" =>
              /\ instr.kind = "reject" /\ DOMAIN instr = {"kind", "delivery", "error"}
              /\ IsSome(instr.error.reason) = IsSome(cur.options.dead_letter_reason)
              /\ IsSome(instr.error.description) =
                    IsSome(cur.options.dead_letter_error_description)
              /\ IsSome(instr.error.annotations) = IsSome(cur.options.properties_to_modify)
        /\ cur.op = "defer_message" =>
              /\ instr.kind = "modify" /\ DOMAIN instr = {"kind", "delivery", "modified"}
              /\ instr.modified.delivery_failed = None
              /\ instr.modified.undeliverable_here = <<TRUE>>

C5_Witness ==
    /\ cur.op = "defer_message" /\ cur.message = [lock_token |-> "Delivery", id |-> 2]
    /\ Returned /\ result = Ok
    /\ instr.kind = "modify" /\ instr.delivery = 2

\* C6: a send that was submitted and has returned succeeded exactly when the
\* outcome was Accepted; Rejected, Released and Modified each give a failure of
\* their own variant that holds the outcome's payload as it came.
C6_OutcomeInterpretation ==
    (cur.op \in SendOps /\ Returned /\ instr # NoInstr) =>
        /\ result = Ok <=> (answer.tag = "outcome" /\ answer.outcome.kind = "Accepted")
        /\ answer.tag = "outcome" =>
              /\ answer.outcome.kind = "Rejected" =>
                    result = Err("NotAccepted::Rejected", answer.outcome.payload)
              /\ answer.outcome.kind = "Released" =>
                    result = Err("NotAccepted::Released", answer.outcome.payload)
              /\ answer.outcome.kind = "Modified" =>
                    result = Err("NotAccepted::Modified", answer.outcome.payload)

C6_Witness ==
    /\ cur.op = "send_messages" /\ Len(cur.messages) = 2 /\ Returned
    /\ answer = Answer([kind |-> "Modified", payload |-> "p2"])
    /\ result.tag = "Err" /\ result.payload = "p2"

\* C7: send_messages with no message and send_message_batch with an empty batch
\* return success, issue no post and no post_batchable, leave the scope Open and
\* the broker with nothing of theirs, however often they are called.
C7_EmptySendIsNoOp ==
    (cur.op \in {"send_messages", "send_message_batch"} /\ Len(cur.messages) = 0) =>
        /\ pc = "idle"
        /\ result = Ok
        /\ Issued(cur.id) = {}
        /\ instr = NoInstr
        /\ scope = "Open"
        /\ cur.id \notin broker.accepted

C7_Witness ==
    /\ cur.op = "send_messages" /\ Len(cur.messages) = 0
    /\ cur.id = 2 /\ wire = <<>>
    /\ result = Ok /\ scope = "Open"

\* C8: no retry. No call issues more than one operation to the transaction
\* context, and a call whose one submission failed (a transport error, or an
\* outcome other than Accepted) has returned that failure.
C8_NoRetry ==
    /\ \A id \in 1..ncalls : Cardinality(Issued(id)) <= 1
    /\ (pc = "idle" /\ answer.tag = "error") =>
          result.tag = "Err" /\ result.payload = answer.error
    /\ (pc = "idle" /\ answer.tag = "outcome" /\ answer.outcome.kind # "Accepted") =>
          result.tag = "Err"
    /\ (answer.tag \in {"error", "outcome"}) => pc \in {"idle", "panicked"}

C8_Witness ==
    /\ cur.op = "send_message_batch" /\ Len(cur.messages) = 2
    /\ Returned /\ answer.tag = "error"
    /\ result.tag = "Err"
    /\ Cardinality(Issued(cur.id)) = 1

\* C9: a message sent by send_message and the same message sent as a batch of
\* one by send_message_batch are classified alike: for each of Accepted,
\* Rejected, Released and Modified both calls succeed or both fail.
C9_SingleAndBatchOfOneAgree ==
    \A x, y \in seen :
        (/\ x[1] = "send_message" /\ y[1] = "send_message_batch"
         /\ x[2] = y[2] /\ x[3] = y[3]) => x[4] = y[4]

C9_Witness ==
    \E x, y \in seen :
        /\ x[1] = "send_message" /\ y[1] = "send_message_batch"
        /\ x[2] = y[2] /\ x[3] = "Released" /\ y[3] = "Released"
        /\ x[4] = "Err" /\ y[4] = "Err"

\* C10: dead_letter_message with no field of its options set issues a reject
\* whose error has no reason, no description and no annotations; with every
\* field set, the reject holds the reason, the description and each property's
\* name and value as given, in the order given.
C10_DeadLetterOptionsCarried ==
    (cur.op = "dead_letter_message" /\ cur.message.lock_token = "Delivery") =>
        LET o == cur.options
            e == instr.error
        IN  /\ instr.kind = "reject"
            /\ (/\ o.dead_letter_reason = None
                /\ o.dead_letter_error_description = None
                /\ o.properties_to_modify = None) =>
                  e.reason = None /\ e.description = None /\ e.annotations = None
            /\ (/\ IsSome(o.dead_letter_reason)
                /\ IsSome(o.dead_letter_error_description)
                /\ IsSome(o.properties_to_modify)) =>
                  /\ e.reason = o.dead_letter_reason
                  /\ e.description = o.dead_letter_error_description
                  /\ IsSome(e.annotations)
                  /\ Len(Unwrap(e.annotations)) = Len(Unwrap(o.properties_to_modify))
                  /\ \A i \in 1..Len(Unwrap(o.properties_to_modify)) :
                        /\ Unwrap(e.annotations)[i][1].symbol =
                              Unwrap(o.properties_to_modify)[i][1]
                        /\ Unwrap(e.annotations)[i][2] = Unwrap(o.properties_to_modify)[i][2]

C10_Witness ==
    /\ cur.op = "dead_letter_message" /\ cur.message.lock_token = "Delivery"
    /\ IsSome(cur.options.dead_letter_reason)
    /\ IsSome(cur.options.dead_letter_error_description)
    /\ IsSome(cur.options.properties_to_modify)
    /\ Len(Unwrap(cur.options.properties_to_modify)) = 2
    /\ instr.kind = "reject" /\ instr.error.reason = <<"reason">>
    /\ Returned /\ result = Ok

\* C11: each send call is submitted on its own and in call order. A send call
\* given at least one message issues exactly one post (or post_batchable), as
\* the newest operation on the wire, holding exactly the messages of that call
\* in their order; the wire's operations are in the order of the calls that
\* issued them, and no other call issues a post.
C11_SendsInCallOrder ==
    /\ \A i, j \in DOMAIN wire : i < j => wire[i].call < wire[j].call
    /\ (cur.op \in SendOps /\ Len(cur.messages) > 0) =>
          /\ Cardinality(Issued(cur.id)) = 1
          /\ wire[Len(wire)].call = cur.id
          /\ wire[Len(wire)].kind \in {"post", "post_batchable"}
          /\ instr.sendable = cur.messages
    /\ cur.op \notin SendOps =>
          \A i \in Issued(cur.id) : wire[i].kind \notin {"post", "post_batchable"}

C11_Witness ==
    /\ cur.op = "send_messages" /\ cur.messages = <<"m2", "m1">> /\ cur.id = 2
    /\ Len(wire) = 2 /\ wire[1].kind = "post" /\ wire[2].kind = "post_batchable"
    /\ instr.sendable = <<"m2", "m1">>
    /\ Returned /\ result = Ok

\* C12: a send or disposition that failed leaves the scope as it was. While the
\* last call is a send or a disposition no commit or rollback is on the wire,
\* and once such a call has returned a failure the scope is Open and the caller
\* can roll back.
C12_FailureKeepsScopeOpen ==
    (cur.op \in SendOps \cup DispositionOps) =>
        /\ Discharges(wire) = {}
        /\ scope = "Open"
        /\ broker.txn = "active"
        /\ (Returned /\ result.tag = "Err") => ENABLED CallRollback

C12_Witness ==
    /\ cur.op = "send_message" /\ cur.id = 2
    /\ Returned /\ result = Err("NotAccepted::Rejected", "p1")
    /\ scope = "Open" /\ Len(wire) = 2
    /\ ENABLED CallRollback

\* C13: a Declared outcome given to a send aborts the call. The call returns
\* nothing, neither success nor a failure, the caller makes no further call, and
\* a call aborts for no other reason.
C13_DeclaredAborts ==
    /\ (answer.tag = "outcome" /\ answer.outcome.kind = "Declared") =>
          /\ pc = "panicked"
          /\ result = NoResult
          /\ ~CanCall
    /\ pc = "panicked" =>
          /\ cur.op \in SendOps
          /\ answer.tag = "outcome" /\ answer.outcome.kind = "Declared"

C13_Witness ==
    /\ cur.op = "send_message_batch" /\ Len(cur.messages) = 2
    /\ answer = Answer([kind |-> "Declared", payload |-> "txn-id"])
    /\ pc = "panicked" /\ result = NoResult

\* what the disposition call c does first when its receiver's session id is sid
WithSession(c, sid) ==
    CASE c.op = "complete_message" -> complete_message(c.message, sid)
      [] c.op = "abandon_message" ->
            abandon_message(c.message, c.properties_to_modify, sid)
      [] c.op = "dead_letter_message" -> dead_letter_message(c.message, c.options, sid)
      [] c.op = "defer_message" -> defer_message(c.message, c.properties_to_modify, sid)

\* C14: the session id does not change a disposition. Whatever the session id
\* of the receiver (none, or any value), the call made with it would issue the
\* instruction this call issued, or return at once what this call returned; and
\* what a call that issued its instruction returns follows the transport's
\* answer alone.
C14_SessionIdIgnored ==
    (cur.op \in DispositionOps) =>
        /\ \A sid \in SessionIds \cup {Some("other-session")} :
              LET st == WithSession(cur, sid)
              IN  /\ st.next \in {"submit", "return"}
                  /\ st.next = "submit" => instr = st.instr
                  /\ st.next = "return" => instr = NoInstr /\ result = st.result
        /\ (Returned /\ instr # NoInstr) => (result = Ok <=> answer.tag = "done")

C14_Witness ==
    /\ cur.op = "abandon_message" /\ cur.session_id = Some("session")
    /\ cur.message.lock_token = "Delivery"
    /\ instr = WithSession(cur, None).instr
    /\ Returned /\ result = Ok

\* C15: a disposition of a message held by delivery has returned success
\* exactly when the transport's accept, modify or reject succeeded; an error of
\* the link is returned as the call's failure, holding that error, and is never
\* a success.
C15_DispositionResult ==
    (cur.op \in DispositionOps /\ cur.message.lock_token = "Delivery" /\ pc = "idle") =>
        /\ result # NoResult
        /\ answer.tag \in {"done", "error"}
        /\ result = Ok <=> answer.tag = "done"
        /\ answer.tag = "error" =>
              /\ result.tag = "Err"
              /\ result.payload = answer.error
              /\ result # NotImplemented

C15_Witness ==
    /\ cur.op = "dead_letter_message" /\ cur.message.lock_token = "Delivery"
    /\ pc = "idle" /\ answer = Failed("illegal-link-state")
    /\ result.tag = "Err" /\ result.payload = "illegal-link-state"
    /\ instr.kind = "reject"

\* the envelope the builder makes of the current send call's messages
EnvelopeOf(c) == build_amqp_batch_from_messages(c.messages, FALSE)

\* C16: a batch envelope is sent in two phases, a single one in one. A batch
\* envelope issues exactly one post_batchable and no post, a single envelope
\* exactly one post and no post_batchable. From the first phase the call either
\* enters the second with nothing interpreted yet, or returns the first phase's
\* error as its failure at once; the second phase is entered from the first
\* only, and a batch's outcome is taken only at the end of the second.
C16_BatchTwoPhase ==
    [][/\ (cur'.op \in SendOps /\ IsSome(EnvelopeOf(cur'))) =>
             /\ Cardinality({i \in DOMAIN wire' : wire'[i].call = cur'.id}) = 1
             /\ Unwrap(EnvelopeOf(cur')).sendable = "Batch" =>
                   instr'.kind = "post_batchable"
             /\ Unwrap(EnvelopeOf(cur')).sendable = "Single" => instr'.kind = "post"
       /\ (pc = "await_post_batchable" /\ pc' # pc) =>
             /\ wire' = wire
             /\ \/ pc' = "await_fut" /\ answer' = NoAnswer /\ result' = NoResult
                \/ pc' = "idle" /\ answer'.tag = "error" /\ result'.tag = "Err"
       /\ (pc' = "await_fut" /\ pc # pc') => pc = "await_post_batchable"
       /\ (instr.kind = "post_batchable" /\ answer.tag = "none" /\ answer'.tag = "outcome") =>
             pc = "await_fut"
       /\ (instr.kind = "post" /\ pc # pc') => pc' # "await_fut"]_vars

C16_Witness ==
    /\ cur.op = "send_messages" /\ Len(cur.messages) = 2
    /\ instr.kind = "post_batchable"
    /\ Cardinality(Issued(cur.id)) = 1
    /\ answer = Answer([kind |-> "Rejected", payload |-> "p1"])
    /\ Returned /\ result.tag = "Err"

\* what the other of abandon and defer does with the arguments of the call c
Counterpart(c) ==
    IF c.op = "abandon_message"
    THEN defer_message(c.message, c.properties_to_modify, c.session_id)
    ELSE abandon_message(c.message, c.properties_to_modify, c.session_id)

\* C17: abandon and defer carry the caller's properties into the modify
\* unchanged. Absent properties give absent annotations (not an empty map);
\* present ones give as many annotations, each with the name and the value of
\* the property at its place. The instruction the other of the two would issue
\* for the same arguments differs in undeliverable_here and in nothing else.
C17_AnnotationsCarried ==
    (/\ cur.op \in {"abandon_message", "defer_message"}
     /\ cur.message.lock_token = "Delivery") =>
        LET given == cur.properties_to_modify
            sent == instr.modified.message_annotations
            other == Counterpart(cur).instr
        IN  /\ instr.kind = "modify"
            /\ given = None => sent = None
            /\ IsSome(given) =>
                  /\ IsSome(sent)
                  /\ Len(Unwrap(sent)) = Len(Unwrap(given))
                  /\ \A i \in 1..Len(Unwrap(given)) :
                        /\ Unwrap(sent)[i][1].symbol = Unwrap(given)[i][1]
                        /\ Unwrap(sent)[i][2] = Unwrap(given)[i][2]
            /\ other.modified.undeliverable_here # instr.modified.undeliverable_here
            /\ [other EXCEPT !.modified.undeliverable_here =
                                instr.modified.undeliverable_here] = instr

C17_Witness ==
    /\ cur.op = "abandon_message" /\ cur.message.lock_token = "Delivery"
    /\ cur.properties_to_modify = Some(<<<<"k2", "v2">>, <<"k1", "v1">>>>)
    /\ Len(Unwrap(instr.modified.message_annotations)) = 2
    /\ Returned /\ result = Ok

\* some call on the scope can be made
SomeCallEnabled ==
    \/ ENABLED CallSendMessage
    \/ ENABLED CallSendMessages
    \/ ENABLED CallSendMessageBatch
    \/ ENABLED CallCompleteMessage
    \/ ENABLED CallAbandonMessage
    \/ ENABLED CallDeadLetterMessage
    \/ ENABLED CallDeferMessage
    \/ ENABLED CallCommit
    \/ ENABLED CallRollback

\* C18: commit and rollback consume the scope whether or not they succeed. Once
\* either has been called, also when it has returned a failure, the scope is
\* gone: no rollback, no second commit and no other call can be made on it, and
\* the discharge that call issued is the last operation on the wire.
C18_DischargeConsumesOnFailure ==
    (cur.op \in DischargeOps) =>
        /\ scope # "Open"
        /\ ~SomeCallEnabled
        /\ Discharges(wire) = {Len(wire)}
        /\ wire[Len(wire)].call = cur.id
        /\ wire[Len(wire)].kind = cur.op

C18_Witness ==
    /\ cur.op = "commit" /\ Returned
    /\ result = Err("ControllerSendError", "controller-send")
    /\ scope = "Committed"
    /\ Len(wire) = 3
    /\ ~ENABLED CallRollback

\* the current call is suspended on the transport
Suspended == pc \notin {"idle", "panicked"}

\* a call that has nothing to submit: a disposition of a message held by lock
\* token, or a send of no message
NothingToSubmit ==
    \/ cur.op \in DispositionOps /\ cur.message.lock_token = "LockToken"
    \/ cur.op \in SendOps /\ Len(cur.messages) = 0

ReturnsAtOnce ==
    NothingToSubmit =>
        /\ Returned
        /\ answer = NoAnswer
        /\ Issued(cur.id) = {}

\* C19 as stated: when the broker answers every submission, every call in the
\* end returns success or a failure, and a call with nothing to submit returns
\* without waiting.
C19_EveryCallReturns ==
    /\ []ReturnsAtOnce
    /\ (pc # "idle") ~> Returned

\* C19, amended: when the broker answers every submission, every call in the
\* end returns success or a failure or, for a send answered with Declared,
\* aborts; and a call with nothing to submit returns without waiting.
C19_EveryCallEnds ==
    /\ []ReturnsAtOnce
    /\ Suspended ~> (Returned \/ pc = "panicked")
    /\ [](pc = "panicked" => answer.outcome.kind = "Declared")

C19_Witness ==
    /\ cur.op = "rollback" /\ cur.id = 3
    /\ wire[1].kind = "post_batchable" /\ wire[2].kind = "reject"
    /\ Returned /\ answer = Done /\ result = Ok

====
